---- MODULE Spec2Model ----
(***************************************************************************)
(* A model of the valet secret store: the AEAD key wrapper (Key), the      *)
(* password-derived User, the RecordData encode/compress/encrypt pipeline, *)
(* and Lot/Record persistence over the SQL tables.                         *)
(*                                                                         *)
(* Byte strings are sequences of naturals.  The external primitives are    *)
(* idealised: OsRng and Uuid::now_v7 never repeat a value, Argon2 is       *)
(* collision free, and an AEAD ciphertext opens only under the key and     *)
(* nonce that sealed it.                                                   *)
(***************************************************************************)
EXTENDS Integers, Sequences, FiniteSets, TLC

VARIABLES
    rng,        \* draws made so far from OsRng / Uuid::now_v7, per kind
    kIn,        \* Key harness: the key, second key and plaintext drawn
    encLog,     \* Key harness: the encrypt calls made, in order
    decOut,     \* Key harness: the last decrypt call and its result
    dIn,        \* RecordData harness: the value, lot key and map order drawn
    dOut,       \* RecordData harness: the last pipeline call and its result
    vUser,      \* User harness: the User under test
    vOut,       \* User harness: the last validate call and its result
    database,   \* the SQL tables: users, lots, user_lot_keys, records
    mem,        \* the User and Lot objects the program holds
    res         \* the last call of the program and what it returned

keyVars == <<kIn, encLog, decOut>>
dataVars == <<dIn, dOut>>
userVars == <<vUser, vOut>>
sysVars == <<database, mem, res>>
vars == <<rng, kIn, encLog, decOut, dIn, dOut, vUser, vOut, database, mem, res>>

\* ------------------------------------------------------------------ bounds
\* Model-scale lengths of the fixed-size byte arrays (key, nonce, salt).
KeyLen == 2
NonceLen == 2
SaltLen == 2
\* Sizes of the input sets and call budgets of the Key harness.
NumKeys == 2
MaxPlainLen == 1
MaxEncCalls == 2
\* Longest label, text or attribute value of a RecordData.
MaxStrLen == 1
\* Sizes of the User harness: passwords, and validation replacements in a row.
NumPasswords == 2
MaxReplace == 2
\* Sizes of the program's runs: User objects held, identifiers drawn (one
\* per Lot and per Record), and encrypt calls made.
MaxUsers == 2
MaxUuids == 3
MaxNonces == 7

\* ----------------------------------------------------------------- results
Ok(v) == [ok |-> TRUE, err |-> "none", val |-> v]
Err(e) == [ok |-> FALSE, err |-> e]
\* A panic unwinds out of the call: no value and no error is returned.
Panic == [ok |-> FALSE, err |-> "panic"]

\* ------------------------------------------------------------------- bytes
Byte == 0..1
SeqsUpTo(S, n) == UNION {[1..k -> S] : k \in 0..n}
Fill(len, id) == [i \in 1..len |-> id]

\* OsRng.fill_bytes: the id-th draw of the generator, as len bytes.
fill_bytes(len, id) == Fill(len, id)

\* ---------------------------------------------------------------- AEAD box
\* Aes256GcmSiv: the ciphertext bytes are abstracted as the sealed box; a bit
\* flipped anywhere in them leaves a box whose tag no longer verifies.
Seal(keyBytes, nonce, plaintext) ==
    [key |-> keyBytes, nonce |-> nonce, pt |-> plaintext, intact |-> TRUE]
Opens(keyBytes, nonce, box) ==
    box.intact /\ box.key = keyBytes /\ box.nonce = nonce
Corrupt(box) == [box EXCEPT !.intact = FALSE]

\* --------------------------------------------------------------------- Key
\* Key::generate: the id-th key drawn; a key draw equals no salt or nonce
\* draw of the generator.
Key_generate(id) == [bytes |-> fill_bytes(KeyLen, 500 + id)]

Key_as_bytes(key) == key.bytes

Key_from_bytes(bytes) ==
    IF Len(bytes) = KeyLen THEN Ok([bytes |-> bytes]) ELSE Panic

\* Argon2 over (password, salt): distinct inputs give distinct outputs, and
\* no output equals a generated key.
Argon2(password, salt) ==
    Fill(KeyLen, 1000 * password + 100 * Len(salt)
                 + (IF Len(salt) > 0 THEN salt[1] ELSE 0))

\* Argon2 rejects a salt shorter than half the size generate_salt gives.
MinSaltLen == SaltLen \div 2

Key_from_password(password, salt) ==
    IF Len(salt) < MinSaltLen THEN Err("KeyDerivation")
    ELSE Ok([bytes |-> Argon2(password, salt)])

\* A plausible slip: the nonce is left at Nonce::default() instead of being
\* filled from OsRng.
Key_encrypt_default_nonce(key, plaintext, nonceId) ==
    LET nonce == Fill(NonceLen, 0)
    IN  Ok([data |-> Seal(key.bytes, nonce, plaintext), nonce |-> nonce])

Key_encrypt(key, plaintext, nonceId) ==
    LET nonce == fill_bytes(NonceLen, nonceId)
    IN  Ok([data |-> Seal(key.bytes, nonce, plaintext), nonce |-> nonce])

\* A plausible slip: the cipher is opened with a default nonce instead of the
\* stored one.
Key_decrypt_default_nonce(key, encrypted) ==
    IF Len(encrypted.nonce) # NonceLen THEN Panic
    ELSE IF Opens(key.bytes, Fill(NonceLen, 0), encrypted.data)
         THEN Ok(encrypted.data.pt)
         ELSE Err("Decryption")

\* Nonce::from_slice asserts the slice length, then the cipher opens the box.
Key_decrypt(key, encrypted) ==
    IF Len(encrypted.nonce) # NonceLen THEN Panic
    ELSE IF Opens(key.bytes, encrypted.nonce, encrypted.data)
         THEN Ok(encrypted.data.pt)
         ELSE Err("Decryption")

\* -------------------------------------------------------------- RecordData
\* Plain(label, text) and Domain(label, attributes); strings are byte
\* sequences and a HashMap is a function from its keys.
Plain(label, text) == [tag |-> "Plain", label |-> label, text |-> text]
Domain(label, attrs) == [tag |-> "Domain", label |-> label, attrs |-> attrs]

\* Every order in which a HashMap may yield its keys.
RECURSIVE IterOrders(_)
IterOrders(S) ==
    IF S = {} THEN {<<>>}
    ELSE UNION {{<<k>> \o rest : rest \in IterOrders(S \ {k})} : k \in S}

\* bitcode: the enum's variant index (Domain 0, Plain 1), then each string
\* with its length in front, a map as its entry count and its entries.
EncodeStr(s) == <<Len(s)>> \o s

RECURSIVE EncodeEntries(_, _)
EncodeEntries(attrs, order) ==
    IF order = <<>> THEN <<>>
    ELSE EncodeStr(Head(order)) \o EncodeStr(attrs[Head(order)])
         \o EncodeEntries(attrs, Tail(order))

\* order: the order in which the HashMap of a Domain yields its entries.
RecordData_encode(v, order) ==
    IF v.tag = "Plain"
    THEN <<1>> \o EncodeStr(v.label) \o EncodeStr(v.text)
    ELSE <<0>> \o EncodeStr(v.label) \o <<Len(order)>>
         \o EncodeEntries(v.attrs, order)

NoRead == [ok |-> FALSE]
ReadStr(buf, pos) ==
    IF pos > Len(buf) THEN NoRead
    ELSE IF pos + buf[pos] > Len(buf) THEN NoRead
    ELSE [ok |-> TRUE, val |-> SubSeq(buf, pos + 1, pos + buf[pos]),
          next |-> pos + buf[pos] + 1]

\* Reads n entries from pos on; a repeated key keeps its last value.
RECURSIVE ReadEntries(_, _, _, _)
ReadEntries(buf, pos, n, acc) ==
    IF n = 0 THEN [ok |-> TRUE, val |-> acc, next |-> pos]
    ELSE LET k == ReadStr(buf, pos) IN
         IF ~k.ok THEN NoRead
         ELSE LET x == ReadStr(buf, k.next) IN
              IF ~x.ok THEN NoRead
              ELSE ReadEntries(buf, x.next, n - 1,
                       [a \in DOMAIN acc \cup {k.val} |->
                            IF a = k.val THEN x.val ELSE acc[a]])

EmptyMap == [a \in {} |-> <<>>]

RecordData_decode(buf) ==
    IF buf = <<>> \/ buf[1] \notin {0, 1} THEN Err("Encoding")
    ELSE LET label == ReadStr(buf, 2) IN
         IF ~label.ok THEN Err("Encoding")
         ELSE IF buf[1] = 1
         THEN LET text == ReadStr(buf, label.next) IN
              IF text.ok /\ text.next = Len(buf) + 1
              THEN Ok(Plain(label.val, text.val))
              ELSE Err("Encoding")
         ELSE IF label.next > Len(buf) THEN Err("Encoding")
         ELSE LET es == ReadEntries(buf, label.next + 1, buf[label.next],
                                    EmptyMap) IN
              IF es.ok /\ es.next = Len(buf) + 1
              THEN Ok(Domain(label.val, es.val))
              ELSE Err("Encoding")

\* snap frame format: a stream identifier, then a chunk holding the checksum
\* of the uncompressed bytes and the bytes as (run length, byte) pairs.
RECURSIVE SumBytes(_)
SumBytes(b) == IF b = <<>> THEN 0 ELSE Head(b) + SumBytes(Tail(b))
Checksum(b) == (SumBytes(b) + Len(b)) % 251

RECURSIVE RunLength(_, _)
RunLength(b, i) ==
    IF i > Len(b) \/ b[i] # b[1] THEN i - 1 ELSE RunLength(b, i + 1)

RECURSIVE Squeeze(_)
Squeeze(b) ==
    IF b = <<>> THEN <<>>
    ELSE LET n == RunLength(b, 1)
         IN  <<n, b[1]>> \o Squeeze(SubSeq(b, n + 1, Len(b)))

RECURSIVE Expand(_)
Expand(c) ==
    IF c = <<>> THEN Ok(<<>>)
    ELSE IF Len(c) < 2 \/ c[1] < 1 THEN Err("Compression")
    ELSE LET rest == Expand(SubSeq(c, 3, Len(c)))
         IN  IF rest.ok THEN Ok(Fill(c[1], c[2]) \o rest.val) ELSE rest

StreamIdent == <<255>>

FrameEncode(b) == StreamIdent \o <<Checksum(b)>> \o Squeeze(b)

FrameDecode(buf) ==
    IF Len(buf) < 2 \/ SubSeq(buf, 1, 1) # StreamIdent THEN Err("Compression")
    ELSE LET body == Expand(SubSeq(buf, 3, Len(buf))) IN
         IF body.ok /\ Checksum(body.val) = buf[2] THEN body
         ELSE Err("Compression")

RecordData_compress(v, order) == Ok(FrameEncode(RecordData_encode(v, order)))

\* A plausible slip: the decompressed bytes are decoded without their first
\* byte.
RecordData_decompress_shifted(buf) ==
    LET decompressed == FrameDecode(buf) IN
    IF ~decompressed.ok THEN decompressed
    ELSE RecordData_decode(Tail(decompressed.val))

RecordData_decompress(buf) ==
    LET decompressed == FrameDecode(buf) IN
    IF ~decompressed.ok THEN decompressed
    ELSE RecordData_decode(decompressed.val)

RecordData_encrypt(v, key, order, nonceId) ==
    LET compressed == RecordData_compress(v, order) IN
    IF ~compressed.ok THEN compressed
    ELSE LET e == Key_encrypt(key, compressed.val, nonceId) IN
         IF e.ok THEN e ELSE Err("Encryption")

RecordData_decrypt(buf, key) ==
    LET decrypted == Key_decrypt(key, buf) IN
    IF decrypted.err = "panic" THEN Panic
    ELSE IF ~decrypted.ok THEN Err("Encryption")
    ELSE RecordData_decompress(decrypted.val)

\* -------------------------------------------------------------------- User
\* b"VALID"
VALIDATION == <<86, 65, 76, 73, 68>>

generate_salt(saltId) == fill_bytes(SaltLen, saltId)

\* A plausible slip: the marker is encrypted under a key derived without the
\* salt that is stored with the user.
User_new_unsalted(username, password, saltId, nonceId) ==
    LET salt == generate_salt(saltId)
        key == Key_from_password(password, Fill(SaltLen, 0))
    IN  IF ~key.ok THEN Err("Encrypt")
        ELSE LET validation == Key_encrypt(key.val, VALIDATION, nonceId) IN
             IF ~validation.ok THEN Err("Encrypt")
             ELSE Ok([username |-> username, salt |-> salt,
                      validation |-> validation.val,
                      key |-> [bytes |-> Argon2(password, salt)]])

User_new(username, password, saltId, nonceId) ==
    LET salt == generate_salt(saltId)
        key == Key_from_password(password, salt)
    IN  IF ~key.ok THEN Err("Encrypt")
        ELSE LET validation == Key_encrypt(key.val, VALIDATION, nonceId) IN
             IF ~validation.ok THEN Err("Encrypt")
             ELSE Ok([username |-> username, salt |-> salt,
                      validation |-> validation.val, key |-> key.val])

\* Ok(b) is the boolean returned; a panic in decrypt unwinds through it.
User_validate(user) ==
    LET v == Key_decrypt(user.key, user.validation) IN
    IF v.err = "panic" THEN Panic
    ELSE IF v.ok THEN Ok(v.val = VALIDATION)
    ELSE Ok(FALSE)

\* The users table keys its rows by username.
UsernameTaken(db, username) ==
    \E i \in 1..Len(db.users) : db.users[i].username = username

\* A plausible slip: INSERT OR REPLACE, which overwrites the row of a taken key.
SqlUser_insert_or_replace(db, row) ==
    IF UsernameTaken(db, row.username)
    THEN [db |-> [db EXCEPT !.users =
                     [i \in 1..Len(@) |->
                         IF @[i].username = row.username THEN row ELSE @[i]]],
          out |-> Ok(row)]
    ELSE [db |-> [db EXCEPT !.users = Append(@, row)], out |-> Ok(row)]

\* users table: INSERT of a row, refused when its key is taken.
SqlUser_insert(db, row) ==
    IF UsernameTaken(db, row.username)
    THEN [db |-> db, out |-> Err("Database")]
    ELSE [db |-> [db EXCEPT !.users = Append(@, row)], out |-> Ok(row)]

\* users table: the row of a username, or the store's row-not-found error.
SqlUser_select(db, username) ==
    IF UsernameTaken(db, username)
    THEN Ok(db.users[CHOOSE i \in 1..Len(db.users) :
                         db.users[i].username = username])
    ELSE Err("Database")

User_register(db, user) ==
    LET sql_user == [username |-> user.username, salt |-> user.salt,
                     validation_data |-> user.validation.data,
                     validation_nonce |-> user.validation.nonce]
        r == SqlUser_insert(db, sql_user)
    IN  [db |-> r.db, out |-> IF r.out.ok THEN Ok(user) ELSE Err("Database")]

\* A plausible slip: the loaded user is returned without being validated.
User_load_unvalidated(db, username, password) ==
    LET sql_user == SqlUser_select(db, username) IN
    IF ~sql_user.ok THEN Err("Database")
    ELSE LET key == Key_from_password(password, sql_user.val.salt) IN
         IF ~key.ok THEN Err("Encrypt")
         ELSE IF Len(sql_user.val.salt) # SaltLen THEN Err("SaltError")
         ELSE Ok([username |-> sql_user.val.username,
                  salt |-> sql_user.val.salt,
                  validation |->
                      [data |-> sql_user.val.validation_data,
                       nonce |-> sql_user.val.validation_nonce],
                  key |-> key.val])

\* A plausible slip: the key is derived with a fresh salt, not the stored one.
User_load_unsalted(db, username, password) ==
    LET sql_user == SqlUser_select(db, username) IN
    IF ~sql_user.ok THEN Err("Database")
    ELSE LET key == Key_from_password(password, Fill(SaltLen, 0)) IN
         IF ~key.ok THEN Err("Encrypt")
         ELSE LET user == [username |-> sql_user.val.username,
                           salt |-> sql_user.val.salt,
                           validation |->
                               [data |-> sql_user.val.validation_data,
                                nonce |-> sql_user.val.validation_nonce],
                           key |-> key.val]
                  valid == User_validate(user)
              IN  IF valid.err = "panic" THEN Panic
                  ELSE IF valid.val THEN Ok(user) ELSE Err("Invalid")

User_load(db, username, password) ==
    LET sql_user == SqlUser_select(db, username) IN
    IF ~sql_user.ok THEN Err("Database")
    ELSE LET key == Key_from_password(password, sql_user.val.salt) IN
         IF ~key.ok THEN Err("Encrypt")
         ELSE IF Len(sql_user.val.salt) # SaltLen THEN Err("SaltError")
         ELSE LET user == [username |-> sql_user.val.username,
                           salt |-> sql_user.val.salt,
                           validation |->
                               [data |-> sql_user.val.validation_data,
                                nonce |-> sql_user.val.validation_nonce],
                           key |-> key.val]
                  valid == User_validate(user)
              IN  IF valid.err = "panic" THEN Panic
                  ELSE IF valid.val THEN Ok(user) ELSE Err("Invalid")

\* -------------------------------------------------------------------- Uuid
\* Uuid::now_v7: the id-th identifier drawn; its text form is the canonical
\* 36-character string, which parse_str accepts and no other.
Uuid_now(id) == id
Uuid_to_string(uuid) == [form |-> "canonical", bits |-> uuid]
Uuid_parse(str) ==
    IF str.form = "canonical" THEN Ok(str.bits) ELSE Err("Uuid")

\* ------------------------------------------------------------------- store
\* lots table: the name column is unique.
LotNameTaken(db, row) ==
    \E i \in 1..Len(db.lots) :
        db.lots[i].name = row.name /\ db.lots[i].uuid # row.uuid

\* A plausible slip: DO UPDATE SET sets every column from the new row.
SqlLot_upsert_replace(db, row) ==
    IF LotNameTaken(db, row) THEN [db |-> db, out |-> Err("Database")]
    ELSE IF \E i \in 1..Len(db.lots) : db.lots[i].uuid = row.uuid
    THEN [db |-> [db EXCEPT !.lots =
                     [i \in 1..Len(@) |->
                         IF @[i].uuid = row.uuid THEN row ELSE @[i]]],
          out |-> Ok(row)]
    ELSE [db |-> [db EXCEPT !.lots = Append(@, row)], out |-> Ok(row)]

\* lots table: INSERT, or on a uuid already there UPDATE of the name;
\* RETURNING gives the row as stored.
SqlLot_upsert(db, row) ==
    IF LotNameTaken(db, row) THEN [db |-> db, out |-> Err("Database")]
    ELSE IF \E i \in 1..Len(db.lots) : db.lots[i].uuid = row.uuid
    THEN LET stored == db.lots[CHOOSE i \in 1..Len(db.lots) :
                                  db.lots[i].uuid = row.uuid] IN
         [db |-> [db EXCEPT !.lots =
                     [i \in 1..Len(@) |->
                         IF @[i].uuid = row.uuid
                         THEN [@[i] EXCEPT !.name = row.name] ELSE @[i]]],
          out |-> Ok([stored EXCEPT !.name = row.name])]
    ELSE [db |-> [db EXCEPT !.lots = Append(@, row)], out |-> Ok(row)]

\* lots table: the first row of that name, or the row-not-found error.
SqlLot_select_by_name(db, name) ==
    IF \E i \in 1..Len(db.lots) : db.lots[i].name = name
    THEN Ok(db.lots[CHOOSE i \in 1..Len(db.lots) :
                        /\ db.lots[i].name = name
                        /\ \A j \in 1..(i - 1) : db.lots[j].name # name])
    ELSE Err("Database")

\* lots table: the row of that uuid, or the row-not-found error.
SqlLot_select(db, uuid) ==
    IF \E i \in 1..Len(db.lots) : db.lots[i].uuid = uuid
    THEN Ok(db.lots[CHOOSE i \in 1..Len(db.lots) : db.lots[i].uuid = uuid])
    ELSE Err("Database")

\* A plausible slip: the statement lacks its ON CONFLICT clause and the table
\* its key, so every save adds a row.
SqlUserLotKey_upsert_insert_only(db, row) ==
    [db |-> [db EXCEPT !.user_lot_keys = Append(@, row)], out |-> Ok(row)]

\* user_lot_keys table: INSERT, or on (username, lot) already there UPDATE
\* of data and nonce.
SqlUserLotKey_upsert(db, row) ==
    IF \E i \in 1..Len(db.user_lot_keys) :
          /\ db.user_lot_keys[i].username = row.username
          /\ db.user_lot_keys[i].lot = row.lot
    THEN [db |-> [db EXCEPT !.user_lot_keys =
                     [i \in 1..Len(@) |->
                         IF @[i].username = row.username /\ @[i].lot = row.lot
                         THEN row ELSE @[i]]],
          out |-> Ok(row)]
    ELSE [db |-> [db EXCEPT !.user_lot_keys = Append(@, row)], out |-> Ok(row)]

SqlUserLotKey_select(db, username, lot) ==
    IF \E i \in 1..Len(db.user_lot_keys) :
          /\ db.user_lot_keys[i].username = username
          /\ db.user_lot_keys[i].lot = lot
    THEN Ok(db.user_lot_keys[CHOOSE i \in 1..Len(db.user_lot_keys) :
                                 /\ db.user_lot_keys[i].username = username
                                 /\ db.user_lot_keys[i].lot = lot])
    ELSE Err("Database")

\* The rows of a user, in the order they were inserted.
RECURSIVE RowsOf(_, _)
RowsOf(rows, username) ==
    IF rows = <<>> THEN <<>>
    ELSE (IF Head(rows).username = username THEN <<Head(rows)>> ELSE <<>>)
         \o RowsOf(Tail(rows), username)

\* The same rows in the order of the (username, lot) key.
RECURSIVE ByLot(_)
ByLot(rows) ==
    IF rows = <<>> THEN <<>>
    ELSE LET m == CHOOSE i \in 1..Len(rows) :
                     \A j \in 1..Len(rows) : rows[i].lot.bits <= rows[j].lot.bits
         IN  <<rows[m]>>
             \o ByLot(SubSeq(rows, 1, m - 1) \o SubSeq(rows, m + 1, Len(rows)))

\* user_lot_keys table: the rows of a user. The statement has no ORDER BY:
\* the rows come in table order or, when the search goes through the
\* (username, lot) key, in key order.
SqlUserLotKey_select_all(db, username, byKey) ==
    Ok(IF byKey THEN ByLot(RowsOf(db.user_lot_keys, username))
       ELSE RowsOf(db.user_lot_keys, username))

\* records table: the uuid column is unique.
RecordUuidTaken(db, uuid) ==
    \E i \in 1..Len(db.records) : db.records[i].uuid = uuid

\* records table: a plain INSERT, with no ON CONFLICT clause.
SqlRecord_upsert(db, row) ==
    IF RecordUuidTaken(db, row.uuid)
    THEN [db |-> db, out |-> Err("Database")]
    ELSE [db |-> [db EXCEPT !.records = Append(@, row)], out |-> Ok(row)]

\* records table: the rows of a lot, in the order they were inserted.
RECURSIVE SelectRows(_, _)
SelectRows(rows, lot) ==
    IF rows = <<>> THEN <<>>
    ELSE (IF Head(rows).lot = lot THEN <<Head(rows)>> ELSE <<>>)
         \o SelectRows(Tail(rows), lot)

SqlRecord_select_by_lot(db, lot) == Ok(SelectRows(db.records, lot))

\* ------------------------------------------------------------------ Record
\* The order in which the HashMap of a record's payload yields its entries.
IterOrder(v) ==
    IF v.tag = "Domain" THEN CHOOSE o \in IterOrders(DOMAIN v.attrs) : TRUE
    ELSE <<>>

Record_new(lot, data, uuidId) ==
    [lot |-> lot.uuid, uuid |-> Uuid_now(uuidId), data |-> data]

\* Each call returns the store it leaves, its result, and the nonce draws made.
Record_save(db, record, lot, nonceId) ==
    LET encrypted == RecordData_encrypt(record.data, lot.key,
                                        IterOrder(record.data), nonceId)
    IN  IF ~encrypted.ok THEN [db |-> db, out |-> encrypted, draws |-> 1]
        ELSE LET sql_record == [lot |-> Uuid_to_string(record.lot),
                                uuid |-> Uuid_to_string(record.uuid),
                                data |-> encrypted.val.data,
                                nonce |-> encrypted.val.nonce]
                 r == SqlRecord_upsert(db, sql_record)
             IN  [db |-> r.db,
                  out |-> IF r.out.ok THEN Ok(record.uuid) ELSE Err("Database"),
                  draws |-> 1]

\* A plausible slip: the record is pushed before the save's result is examined.
Record_insert_push_first(db, record, lot, nonceId) ==
    LET r == Record_save(db, record, lot, nonceId)
    IN  [db |-> r.db, out |-> r.out, draws |-> r.draws,
         lot |-> [lot EXCEPT !.records = Append(@, record)]]

\* The lot is returned with the record pushed when the save succeeded.
Record_insert(db, record, lot, nonceId) ==
    LET r == Record_save(db, record, lot, nonceId)
    IN  [db |-> r.db, out |-> r.out, draws |-> r.draws,
         lot |-> IF r.out.ok
                 THEN [lot EXCEPT !.records = Append(@, record)] ELSE lot]

RECURSIVE LoadRows(_, _)
LoadRows(rows, lot) ==
    IF rows = <<>> THEN Ok(<<>>)
    ELSE LET encrypted == [data |-> Head(rows).data, nonce |-> Head(rows).nonce]
             data == RecordData_decrypt(encrypted, lot.key)
         IN  IF ~data.ok THEN data
             ELSE LET uuid == Uuid_parse(Head(rows).uuid) IN
                  IF ~uuid.ok THEN uuid
                  ELSE LET rest == LoadRows(Tail(rows), lot) IN
                       IF ~rest.ok THEN rest
                       ELSE Ok(<<[lot |-> lot.uuid, uuid |-> uuid.val,
                                  data |-> data.val]>> \o rest.val)

\* A plausible slip: rows that do not decrypt or parse are skipped
\* (filter_map in place of the early return).
Record_load_all_skip_unreadable(db, lot) ==
    LET sql_records == SqlRecord_select_by_lot(db, Uuid_to_string(lot.uuid))
        Readable(row) ==
            /\ RecordData_decrypt([data |-> row.data, nonce |-> row.nonce],
                                  lot.key).ok
            /\ Uuid_parse(row.uuid).ok
    IN  IF ~sql_records.ok THEN Err("Database")
        ELSE LoadRows(SelectSeq(sql_records.val, Readable), lot)

Record_load_all(db, lot) ==
    LET sql_records == SqlRecord_select_by_lot(db, Uuid_to_string(lot.uuid))
    IN  IF ~sql_records.ok THEN Err("Database")
        ELSE LoadRows(sql_records.val, lot)

\* --------------------------------------------------------------------- Lot
Lot_new(name, uuidId, keyId) ==
    [uuid |-> Uuid_now(uuidId), name |-> name, records |-> <<>>,
     key |-> Key_generate(keyId)]

\* for record in &self.records { record.save(&db, self).await?; }
RECURSIVE SaveRecords(_, _, _, _, _)
SaveRecords(db, records, lot, nonceId, draws) ==
    IF records = <<>> THEN [db |-> db, out |-> Ok(lot.uuid), draws |-> draws]
    ELSE LET r == Record_save(db, Head(records), lot, nonceId) IN
         IF ~r.out.ok
         THEN [db |-> r.db, out |-> Err("Record"), draws |-> draws + r.draws]
         ELSE SaveRecords(r.db, Tail(records), lot, nonceId + r.draws,
                          draws + r.draws)

\* A plausible slip: the lot key is encrypted with the lot's own key in place
\* of the user's.
Lot_save_self_wrapped(db, lot, user, nonceId) ==
    LET sql_lot == [uuid |-> Uuid_to_string(lot.uuid), name |-> lot.name]
        r1 == SqlLot_upsert(db, sql_lot)
    IN  IF ~r1.out.ok THEN [db |-> r1.db, out |-> Err("Database"), draws |-> 0]
        ELSE LET encrypted == Key_encrypt(lot.key, Key_as_bytes(lot.key),
                                          nonceId) IN
             IF ~encrypted.ok
             THEN [db |-> r1.db, out |-> Err("Encrypt"), draws |-> 1]
             ELSE LET r2 == SqlUserLotKey_upsert(r1.db,
                               [username |-> user.username,
                                lot |-> Uuid_to_string(lot.uuid),
                                data |-> encrypted.val.data,
                                nonce |-> encrypted.val.nonce]) IN
                  IF ~r2.out.ok
                  THEN [db |-> r2.db, out |-> Err("Database"), draws |-> 1]
                  ELSE SaveRecords(r2.db, lot.records, lot, nonceId + 1, 1)

\* Every statement commits on its own: a failing step leaves the rows the
\* steps before it wrote.
Lot_save(db, lot, user, nonceId) ==
    LET sql_lot == [uuid |-> Uuid_to_string(lot.uuid), name |-> lot.name]
        r1 == SqlLot_upsert(db, sql_lot)
    IN  IF ~r1.out.ok THEN [db |-> r1.db, out |-> Err("Database"), draws |-> 0]
        ELSE LET encrypted == Key_encrypt(user.key, Key_as_bytes(lot.key),
                                          nonceId) IN
             IF ~encrypted.ok
             THEN [db |-> r1.db, out |-> Err("Encrypt"), draws |-> 1]
             ELSE LET r2 == SqlUserLotKey_upsert(r1.db,
                               [username |-> user.username,
                                lot |-> Uuid_to_string(lot.uuid),
                                data |-> encrypted.val.data,
                                nonce |-> encrypted.val.nonce]) IN
                  IF ~r2.out.ok
                  THEN [db |-> r2.db, out |-> Err("Database"), draws |-> 1]
                  ELSE SaveRecords(r2.db, lot.records, lot, nonceId + 1, 1)

Lot_decrypt_and_build(db, user, sql_lot, sql_ulk) ==
    LET encrypted == [data |-> sql_ulk.data, nonce |-> sql_ulk.nonce]
        key_bytes == Key_decrypt(user.key, encrypted)
    IN  IF key_bytes.err = "panic" THEN Panic
        ELSE IF ~key_bytes.ok THEN Err("Encrypt")
        ELSE LET uuid == Uuid_parse(sql_lot.uuid) IN
             IF ~uuid.ok THEN Err("Uuid")
             ELSE LET key == Key_from_bytes(key_bytes.val) IN
                  IF ~key.ok THEN Panic
                  ELSE LET lot == [uuid |-> uuid.val, name |-> sql_lot.name,
                                   records |-> <<>>, key |-> key.val]
                           records == Record_load_all(db, lot)
                       IN  IF records.err = "panic" THEN Panic
                           ELSE IF ~records.ok THEN Err("Record")
                           ELSE Ok([lot EXCEPT !.records = records.val])

Lot_load(db, name, user) ==
    LET sql_lot == SqlLot_select_by_name(db, name) IN
    IF ~sql_lot.ok THEN Err("Database")
    ELSE LET sql_ulk == SqlUserLotKey_select(db, user.username,
                                             sql_lot.val.uuid) IN
         IF ~sql_ulk.ok THEN Err("Database")
         ELSE Lot_decrypt_and_build(db, user, sql_lot.val, sql_ulk.val)

\* for sql_ulk in sql_ulks { select the lot, decrypt_and_build, push }
RECURSIVE LoadLots(_, _, _)
LoadLots(db, user, sql_ulks) ==
    IF sql_ulks = <<>> THEN Ok(<<>>)
    ELSE LET sql_lot == SqlLot_select(db, Head(sql_ulks).lot) IN
         IF ~sql_lot.ok THEN Err("Database")
         ELSE LET lot == Lot_decrypt_and_build(db, user, sql_lot.val,
                                               Head(sql_ulks)) IN
              IF ~lot.ok THEN lot
              ELSE LET rest == LoadLots(db, user, Tail(sql_ulks)) IN
                   IF ~rest.ok THEN rest ELSE Ok(<<lot.val>> \o rest.val)

Lot_load_all(db, user, byKey) ==
    LET sql_ulks == SqlUserLotKey_select_all(db, user.username, byKey) IN
    IF ~sql_ulks.ok THEN Err("Database")
    ELSE LoadLots(db, user, sql_ulks.val)

\* ---------------------------------------------------------------- harnesses
\* Each specification starts the other harnesses idle and leaves them so.
RngInit == rng = [nonce |-> 0, salt |-> 0, key |-> 0, uuid |-> 0]
KeyIdle == kIn = [pt |-> <<>>] /\ encLog = <<>> /\ decOut = [op |-> "none"]
DataIdle == dIn = [v |-> Plain(<<>>, <<>>)] /\ dOut = [op |-> "none"]
UserIdle == vUser = [state |-> "none"] /\ vOut = [op |-> "none"]
SysIdle ==
    /\ database = [users |-> <<>>, lots |-> <<>>, user_lot_keys |-> <<>>,
                   records |-> <<>>]
    /\ mem = [users |-> <<>>, lots |-> <<>>]
    /\ res = [op |-> "none"]

Usernames == {"alice", "charlie"}
Passwords == 1..NumPasswords

\* ------------------------------------------------------------- Key harness
Keys == {Key_generate(i) : i \in 1..NumKeys}
Plains == SeqsUpTo(Byte, MaxPlainLen)

\* The nonce fields a stored ciphertext may carry: the one encrypt produced,
\* another of the same size, a truncated one and an extended one.
NonceVariants(nonce) ==
    {nonce, Fill(NonceLen, 0), SubSeq(nonce, 1, NonceLen - 1), Append(nonce, 0)}

\* The data fields a stored ciphertext may carry: the one encrypt produced,
\* a corrupted one, or the data of another logged ciphertext.
DataVariants(data) ==
    {data, Corrupt(data)} \cup {encLog[j].ct.data : j \in 1..Len(encLog)}

\* ------------------------------------------------------ RecordData harness
Chars == {0, 1}
Strs == SeqsUpTo(Chars, MaxStrLen)
AttrKeys == {<<>>, <<0>>}
Maps == UNION {[ks -> Strs] : ks \in SUBSET AttrKeys}
RecordDatas ==
    {Plain(l, t) : l \in Strs, t \in Strs}
        \cup {Domain(l, m) : l \in Strs, m \in Maps}
OrdersOf(v) ==
    IF v.tag = "Domain" THEN IterOrders(DOMAIN v.attrs) ELSE {<<>>}

InitData ==
    /\ RngInit /\ KeyIdle /\ UserIdle /\ SysIdle
    /\ dIn \in UNION {{[v |-> v, order |-> o, key |-> k] :
                           o \in OrdersOf(v), k \in Keys} : v \in RecordDatas}
    /\ dOut = [op |-> "none"]

\* RecordData::decode(&data.encode())
DataEncodeDecode ==
    /\ dOut' = [op |-> "decode",
                out |-> RecordData_decode(RecordData_encode(dIn.v, dIn.order))]
    /\ UNCHANGED <<rng, keyVars, dIn, userVars, sysVars>>

\* RecordData::decompress(&data.compress()?)
DataCompressDecompress ==
    /\ LET c == RecordData_compress(dIn.v, dIn.order)
       IN  dOut' = [op |-> "decompress",
                    out |-> IF c.ok THEN RecordData_decompress(c.val) ELSE c]
    /\ UNCHANGED <<rng, keyVars, dIn, userVars, sysVars>>

\* RecordData::decrypt(&data.encrypt(key)?, key)
DataEncryptDecrypt ==
    /\ rng.nonce < MaxEncCalls
    /\ LET e == RecordData_encrypt(dIn.v, dIn.key, dIn.order, rng.nonce + 1)
       IN  dOut' = [op |-> "decrypt",
                    out |-> IF e.ok THEN RecordData_decrypt(e.val, dIn.key)
                            ELSE e]
    /\ rng' = [rng EXCEPT !.nonce = @ + 1]
    /\ UNCHANGED <<keyVars, dIn, userVars, sysVars>>

NextData == DataEncodeDecode \/ DataCompressDecompress \/ DataEncryptDecrypt

SpecData == InitData /\ [][NextData]_vars

\* ------------------------------------------------ stored-payload harness
\* The plaintexts a stored payload ciphertext may seal: a compressed payload,
\* a frame of bytes that are no payload, and bytes that are no frame.
StageBodies ==
    {FrameEncode(RecordData_encode(Plain(l, t), <<>>)) : l \in Strs, t \in Strs}
    \cup {FrameEncode(<<7>>), FrameEncode(<<>>), <<9>>, <<>>,
          <<255, 0, 1>>}

\* A key, and a ciphertext sealed under it or under another key, with a
\* nonce field of any of the forms and possibly corrupted.
InitStages ==
    /\ RngInit /\ KeyIdle /\ UserIdle /\ SysIdle
    /\ \E key \in Keys, sealer \in Keys, body \in StageBodies,
          intact \in BOOLEAN, nonce \in NonceVariants(fill_bytes(NonceLen, 1)) :
         LET box == Seal(sealer.bytes, fill_bytes(NonceLen, 1), body) IN
         dIn = [key |-> key,
                buf |-> [data |-> IF intact THEN box ELSE Corrupt(box),
                         nonce |-> nonce]]
    /\ dOut = [op |-> "none"]

\* RecordData::decrypt(&buf, &key)
DataDecrypt ==
    /\ dOut.op = "none"
    /\ dOut' = [op |-> "RecordData.decrypt",
                out |-> RecordData_decrypt(dIn.buf, dIn.key)]
    /\ UNCHANGED <<rng, keyVars, dIn, userVars, sysVars>>

NextStages == DataDecrypt

SpecStages == InitStages /\ [][NextStages]_vars

\* The harness draws a key, a second key and a plaintext.
InitKey ==
    /\ RngInit /\ DataIdle /\ UserIdle /\ SysIdle
    /\ kIn \in [key : Keys, other : Keys, pt : Plains]
    /\ encLog = <<>>
    /\ decOut = [op |-> "none"]

\* key.encrypt(plaintext), with key either the drawn key or a key rebuilt
\* from its raw bytes.
KeyEncrypt ==
    /\ Len(encLog) < MaxEncCalls
    /\ decOut.op = "none"
    /\ \E rebuilt \in BOOLEAN :
         LET key == IF rebuilt THEN Key_from_bytes(Key_as_bytes(kIn.key)).val
                    ELSE kIn.key
             r == Key_encrypt(key, kIn.pt, rng.nonce + 1)
         IN  /\ r.ok
             /\ encLog' = Append(encLog, [key |-> key, pt |-> kIn.pt,
                                          ct |-> r.val, rebuilt |-> rebuilt])
             /\ rng' = [rng EXCEPT !.nonce = @ + 1]
    /\ UNCHANGED <<kIn, decOut, dataVars, userVars, sysVars>>

\* k.decrypt(&encrypted) of a logged ciphertext, possibly altered, under the
\* drawn key or the second key.
KeyDecrypt ==
    /\ decOut.op = "none"
    /\ \E i \in 1..Len(encLog), k \in {kIn.key, kIn.other} :
       \E d \in DataVariants(encLog[i].ct.data),
          n \in NonceVariants(encLog[i].ct.nonce) :
         LET e == [data |-> d, nonce |-> n]
         IN  decOut' = [op |-> "decrypt", src |-> i, key |-> k,
                        encrypted |-> e, out |-> Key_decrypt(k, e)]
    /\ UNCHANGED <<rng, kIn, encLog, dataVars, userVars, sysVars>>

NextKey == KeyEncrypt \/ KeyDecrypt

SpecKey == InitKey /\ [][NextKey]_vars

\* ------------------------------------------------------------ User harness
InitUser == RngInit /\ KeyIdle /\ DataIdle /\ UserIdle /\ SysIdle

\* User::new(username, password)
VNew ==
    /\ vUser.state = "none"
    /\ \E u \in Usernames, p \in Passwords :
         LET r == User_new(u, p, rng.salt + 1, rng.nonce + 1)
         IN  vUser' = IF r.ok
                      THEN [state |-> "new", user |-> r.val, pw |-> p,
                            replaced |-> <<>>]
                      ELSE [state |-> "failed", err |-> r.err]
    /\ rng' = [rng EXCEPT !.salt = @ + 1, !.nonce = @ + 1]
    /\ UNCHANGED <<keyVars, dataVars, vOut, sysVars>>

\* The validation ciphertexts a User may come to hold in place of its own:
\* the marker under another user's key, under its own key again, another
\* plaintext under its own key, or its own ciphertext with an altered field.
Replacements(user) ==
    {[kind |-> "imposter",
      e |-> Key_encrypt(User_new(u, p, rng.salt + 1, rng.nonce + 1).val.key,
                        VALIDATION, rng.nonce + 2).val] :
         u \in Usernames, p \in Passwords}
    \cup {[kind |-> "again",
           e |-> Key_encrypt(user.key, VALIDATION, rng.nonce + 1).val],
          [kind |-> "other",
           e |-> Key_encrypt(user.key, <<0>>, rng.nonce + 1).val],
          [kind |-> "data",
           e |-> [user.validation EXCEPT !.data = Corrupt(@)]]}
    \cup {[kind |-> "nonce", e |-> [user.validation EXCEPT !.nonce = n]] :
            n \in NonceVariants(user.validation.nonce)
                    \ {user.validation.nonce}}

\* user.validation = e
VReplace ==
    /\ vUser.state = "new"
    /\ vOut.op = "none"
    /\ Len(vUser.replaced) < MaxReplace
    /\ \E r \in Replacements(vUser.user) :
         vUser' = [vUser EXCEPT !.user.validation = r.e,
                                !.replaced = Append(@, r.kind)]
    /\ rng' = [rng EXCEPT !.salt = @ + 1, !.nonce = @ + 2]
    /\ UNCHANGED <<keyVars, dataVars, vOut, sysVars>>

\* user.validate()
VValidate ==
    /\ vUser.state = "new"
    /\ vOut.op = "none"
    /\ vOut' = [op |-> "validate", out |-> User_validate(vUser.user)]
    /\ UNCHANGED <<rng, keyVars, dataVars, vUser, sysVars>>

NextUser == VNew \/ VReplace \/ VValidate

SpecUser == InitUser /\ [][NextUser]_vars

\* ------------------------------------------------------------ the program
LotNames == {"main", "work"}
Payloads == {Plain(<<0>>, <<1>>), Domain(<<1>>, [k \in {<<0>>} |-> <<1>>])}

Users == 1..Len(mem.users)
Lots == 1..Len(mem.lots)
Alive(i) == mem.users[i].state \in {"new", "registered"}

\* The program's sign-up and log-in calls start from an empty store.
InitAuth == RngInit /\ KeyIdle /\ DataIdle /\ UserIdle /\ SysIdle

\* User::new(username, password)
UserNew ==
    /\ Len(mem.users) < MaxUsers
    /\ rng.nonce < MaxNonces
    /\ \E u \in Usernames, p \in Passwords :
         LET r == User_new(u, p, rng.salt + 1, rng.nonce + 1) IN
         /\ mem' = IF r.ok
                   THEN [mem EXCEPT !.users =
                            Append(@, [user |-> r.val, pw |-> p,
                                       state |-> "new"])]
                   ELSE mem
         /\ res' = [op |-> "User.new", ok |-> r.ok, err |-> r.err]
    /\ rng' = [rng EXCEPT !.salt = @ + 1, !.nonce = @ + 1]
    /\ UNCHANGED <<database, keyVars, dataVars, userVars>>

\* user.register(&db): the user is moved in, and dropped when the insert fails.
UserRegister ==
    /\ \E i \in Users :
         /\ mem.users[i].state = "new"
         /\ LET r == User_register(database, mem.users[i].user) IN
            /\ database' = r.db
            /\ mem' = [mem EXCEPT !.users[i].state =
                          IF r.out.ok THEN "registered" ELSE "dropped"]
            /\ res' = [op |-> "User.register", user |-> i, ok |-> r.out.ok,
                       err |-> r.out.err, before |-> database]
    /\ UNCHANGED <<rng, keyVars, dataVars, userVars>>

\* User::load(&db, username, password)
UserLoad ==
    /\ \E u \in Usernames, p \in Passwords :
         res' = [op |-> "User.load", username |-> u, pw |-> p,
                 out |-> User_load(database, u, p)]
    /\ UNCHANGED <<rng, database, mem, keyVars, dataVars, userVars>>

\* Lot::new(name): the session works on one Lot object.
LotNew ==
    /\ mem.lots = <<>>
    /\ rng.uuid < MaxUuids
    /\ \E name \in LotNames :
         mem' = [mem EXCEPT !.lots =
                    Append(@, [lot |-> Lot_new(name, rng.uuid + 1, rng.key + 1),
                               dirty |-> FALSE, savedBy |-> {}])]
    /\ rng' = [rng EXCEPT !.uuid = @ + 1, !.key = @ + 1]
    /\ res' = [op |-> "Lot.new"]
    /\ UNCHANGED <<database, keyVars, dataVars, userVars>>

\* What the store holds of a lot for a user: the lot key the user's wrapping
\* row yields (as get_user_lot_key reads it) and the ids of its record rows.
Stored(db, lot, user) ==
    LET sql_ulk == SqlUserLotKey_select(db, user.username,
                                        Uuid_to_string(lot.uuid))
    IN  [key |-> IF sql_ulk.ok
                 THEN Key_decrypt(user.key, [data |-> sql_ulk.val.data,
                                             nonce |-> sql_ulk.val.nonce])
                 ELSE Err("Database"),
         rows |-> [k \in 1..Len(SelectRows(db.records,
                                           Uuid_to_string(lot.uuid))) |->
                      SelectRows(db.records, Uuid_to_string(lot.uuid))[k].uuid]]

\* The (lot, user) pairs in the order their wrapping rows were first written.
Saves(saves, db, l, i) ==
    IF /\ SqlUserLotKey_select(db, mem.users[i].user.username,
                               Uuid_to_string(mem.lots[l].lot.uuid)).ok
       /\ \A k \in 1..Len(saves) : saves[k] # [lot |-> l, user |-> i]
    THEN Append(saves, [lot |-> l, user |-> i])
    ELSE saves

\* lot.save(&db, &user)
LotSave ==
    /\ \E l \in Lots, i \in Users :
         /\ Alive(i)
         /\ rng.nonce + 1 + Len(mem.lots[l].lot.records) <= MaxNonces
         /\ LET r == Lot_save(database, mem.lots[l].lot, mem.users[i].user,
                              rng.nonce + 1) IN
            /\ database' = r.db
            /\ rng' = [rng EXCEPT !.nonce = @ + r.draws]
            /\ mem' = [mem EXCEPT !.lots[l].dirty = FALSE,
                                  !.lots[l].savedBy = @ \cup {i},
                                  !.saves = Saves(@, r.db, l, i)]
            /\ res' = [op |-> "Lot.save", lot |-> l, user |-> i,
                       ok |-> r.out.ok, err |-> r.out.err,
                       was |-> Stored(database, mem.lots[l].lot,
                                      mem.users[i].user)]
    /\ UNCHANGED <<keyVars, dataVars, userVars>>

\* Record::new(&lot, data).insert(&db, &mut lot); the two lots are separate
\* arguments and need not be the same Lot.
RecordInsert ==
    /\ rng.nonce < MaxNonces
    /\ rng.uuid < MaxUuids
    /\ \E of \in Lots, l \in Lots, data \in Payloads :
         /\ LET record == Record_new(mem.lots[of].lot, data, rng.uuid + 1)
                r == Record_insert(database, record, mem.lots[l].lot,
                                   rng.nonce + 1)
            IN  /\ database' = r.db
                /\ mem' = [mem EXCEPT !.lots[l].lot = r.lot]
                /\ res' = [op |-> "Record.insert", lot |-> l, of |-> of,
                           ok |-> r.out.ok, err |-> r.out.err, out |-> r.out]
    /\ rng' = [rng EXCEPT !.uuid = @ + 1, !.nonce = @ + 1]
    /\ UNCHANGED <<keyVars, dataVars, userVars>>

\* lot.records_mut().push(Record::new(&lot, data))
RecordPush ==
    /\ rng.uuid < MaxUuids
    /\ \E l \in Lots, data \in Payloads :
         /\ mem' = [mem EXCEPT
                       !.lots[l].lot.records =
                           Append(@, Record_new(mem.lots[l].lot, data,
                                                rng.uuid + 1)),
                       !.lots[l].dirty = TRUE]
         /\ res' = [op |-> "push", lot |-> l]
    /\ rng' = [rng EXCEPT !.uuid = @ + 1]
    /\ UNCHANGED <<database, keyVars, dataVars, userVars>>

\* Lot::load(&db, name, &user)
LotLoad ==
    /\ \E name \in LotNames, i \in Users :
         /\ Alive(i)
         /\ res' = [op |-> "Lot.load", name |-> name, user |-> i,
                    out |-> Lot_load(database, name, mem.users[i].user)]
    /\ UNCHANGED <<rng, database, mem, keyVars, dataVars, userVars>>

\* Lot::load_all(&db, &user)
LotLoadAll ==
    /\ \E i \in Users, byKey \in BOOLEAN :
         /\ Alive(i)
         /\ res' = [op |-> "Lot.load_all", user |-> i,
                    out |-> Lot_load_all(database, mem.users[i].user, byKey)]
    /\ UNCHANGED <<rng, database, mem, keyVars, dataVars, userVars>>

\* lot.key = Key::<Lot>::generate()
LotRekey ==
    /\ rng.key < NumKeys
    /\ \E l \in Lots :
         /\ mem' = [mem EXCEPT !.lots[l].lot.key = Key_generate(rng.key + 1)]
         /\ res' = [op |-> "rekey", lot |-> l]
    /\ rng' = [rng EXCEPT !.key = @ + 1]
    /\ UNCHANGED <<database, keyVars, dataVars, userVars>>

NextAuth == UserNew \/ UserRegister \/ UserLoad

SpecAuth == InitAuth /\ [][NextAuth]_vars

\* The program's lot and record calls start from the store and the session
\* in which alice and charlie have each run User::new(..).register(&db).
Alice == User_new("alice", 1, 1, 1).val
Charlie == User_new("charlie", 1, 2, 2).val

Init_database ==
    User_register(User_register(
        [users |-> <<>>, lots |-> <<>>, user_lot_keys |-> <<>>,
         records |-> <<>>], Alice).db, Charlie).db
Init_users ==
    <<[user |-> Alice, pw |-> 1, state |-> "registered"],
      [user |-> Charlie, pw |-> 1, state |-> "registered"]>>

Init ==
    /\ KeyIdle /\ DataIdle /\ UserIdle
    /\ rng = [nonce |-> 2, salt |-> 2, key |-> 0, uuid |-> 0]
    /\ database = Init_database
    /\ mem = [users |-> Init_users, lots |-> <<>>, saves |-> <<>>]
    /\ res = [op |-> "none"]

Next == LotNew \/ LotSave \/ LotLoad \/ RecordInsert \/ RecordPush

Spec == Init /\ [][Next]_vars

\* Saves and loads of a lot whose records are pushed in memory and whose key
\* is replaced in between, as the lot module's own code can do.
NextRotate == LotNew \/ RecordPush \/ LotSave \/ LotRekey \/ LotLoad

SpecRotate == Init /\ [][NextRotate]_vars

\* One lot and its owner: alice saves it, inserts records and replaces its
\* key in any order.
InitOwner ==
    /\ KeyIdle /\ DataIdle /\ UserIdle
    /\ rng = [nonce |-> 2, salt |-> 2, key |-> 1, uuid |-> 1]
    /\ database = Init_database
    /\ mem = [users |-> SubSeq(Init_users, 1, 1),
              lots |-> <<[lot |-> Lot_new("main", 1, 1), dirty |-> FALSE,
                          savedBy |-> {}]>>,
              saves |-> <<>>]
    /\ res = [op |-> "none"]

NextOwner == LotSave \/ RecordInsert \/ LotRekey \/ LotLoad

SpecOwner == InitOwner /\ [][NextOwner]_vars

\* ------------------------------------------------------- held records
\* A caller holds records it built with Record::new; save borrows a record and
\* may be called any number of times, insert consumes it.
InitHeld ==
    /\ KeyIdle /\ DataIdle /\ UserIdle
    /\ rng = [nonce |-> 2, salt |-> 2, key |-> 1, uuid |-> 1]
    /\ database = Init_database
    /\ mem = [users |-> SubSeq(Init_users, 1, 1),
              lots |-> <<[lot |-> Lot_new("main", 1, 1), dirty |-> FALSE,
                          savedBy |-> {}]>>,
              held |-> <<>>]
    /\ res = [op |-> "none"]

Held == {h \in 1..Len(mem.held) : mem.held[h].live}

\* let record = Record::new(&lot, data);
RecordNew ==
    /\ rng.uuid < MaxUuids
    /\ \E l \in Lots, data \in Payloads :
         mem' = [mem EXCEPT !.held =
                    Append(@, [record |-> Record_new(mem.lots[l].lot, data,
                                                     rng.uuid + 1),
                               live |-> TRUE])]
    /\ rng' = [rng EXCEPT !.uuid = @ + 1]
    /\ res' = [op |-> "Record.new"]
    /\ UNCHANGED <<database, keyVars, dataVars, userVars>>

\* record.save(&db, &lot)
RecordSave ==
    /\ rng.nonce < MaxNonces
    /\ \E h \in Held, l \in Lots :
         LET r == Record_save(database, mem.held[h].record, mem.lots[l].lot,
                              rng.nonce + 1)
         IN  /\ database' = r.db
             /\ res' = [op |-> "Record.save", lot |-> l, held |-> h,
                        out |-> r.out]
    /\ rng' = [rng EXCEPT !.nonce = @ + 1]
    /\ UNCHANGED <<mem, keyVars, dataVars, userVars>>

\* record.insert(&db, &mut lot)
RecordInsertHeld ==
    /\ rng.nonce < MaxNonces
    /\ \E h \in Held, l \in Lots :
         LET r == Record_insert(database, mem.held[h].record, mem.lots[l].lot,
                                rng.nonce + 1)
         IN  /\ database' = r.db
             /\ mem' = [mem EXCEPT !.lots[l].lot = r.lot,
                                   !.held[h].live = FALSE]
             /\ res' = [op |-> "Record.insert", lot |-> l, held |-> h,
                        out |-> r.out, before |-> mem.lots[l].lot.records]
    /\ rng' = [rng EXCEPT !.nonce = @ + 1]
    /\ UNCHANGED <<keyVars, dataVars, userVars>>

NextHeld == RecordNew \/ RecordSave \/ RecordInsertHeld

SpecHeld == InitHeld /\ [][NextHeld]_vars

\* ------------------------------------------------------- concurrent saves
\* Two tasks each run lot.save(&db, &alice) on their own copy of one lot; the
\* copies have the same id, name and records and different keys. A task is
\* suspended only at an await of a store statement, so each statement with
\* the encryption before it is one step.
Tasks == {1, 2}

InitRace ==
    /\ KeyIdle /\ DataIdle /\ UserIdle
    /\ rng = [nonce |-> 2, salt |-> 2, key |-> 2, uuid |-> 3]
    /\ database = Init_database
    /\ \E n \in 1..2, data \in Payloads :
         LET lot == [Lot_new("main", 1, 1) EXCEPT !.records =
                        [k \in 1..n |->
                            Record_new(Lot_new("main", 1, 1), data, k + 1)]]
         IN  mem = [users |-> Init_users, lots |-> <<>>, saves |-> <<>>,
                    tasks |-> [t \in Tasks |->
                                  [pc |-> "lot", k |-> 1,
                                   lot |-> [lot EXCEPT !.key = Key_generate(t)]]]]
    /\ res = [op |-> "none"]

\* sql_lot.upsert(&db).await?
SaveLotRow ==
    /\ \E t \in Tasks :
         /\ mem.tasks[t].pc = "lot"
         /\ LET lot == mem.tasks[t].lot
                r == SqlLot_upsert(database, [uuid |-> Uuid_to_string(lot.uuid),
                                              name |-> lot.name])
            IN  /\ database' = r.db
                /\ mem' = [mem EXCEPT !.tasks[t].pc =
                              IF r.out.ok THEN "key" ELSE "failed"]
         /\ res' = [op |-> "save: lot row", task |-> t]
    /\ UNCHANGED <<rng, keyVars, dataVars, userVars>>

\* user.key().encrypt(self.key.as_bytes())?; sql_user_lot_key.upsert(&db).await?
SaveKeyRow ==
    /\ \E t \in Tasks :
         /\ mem.tasks[t].pc = "key"
         /\ LET lot == mem.tasks[t].lot
                encrypted == Key_encrypt(Alice.key, Key_as_bytes(lot.key),
                                         rng.nonce + 1)
                r == SqlUserLotKey_upsert(database,
                         [username |-> Alice.username,
                          lot |-> Uuid_to_string(lot.uuid),
                          data |-> encrypted.val.data,
                          nonce |-> encrypted.val.nonce])
            IN  /\ encrypted.ok
                /\ database' = r.db
                /\ mem' = [mem EXCEPT !.tasks[t].pc =
                              IF ~r.out.ok THEN "failed"
                              ELSE IF lot.records = <<>> THEN "done"
                              ELSE "records"]
         /\ res' = [op |-> "save: wrapping row", task |-> t]
    /\ rng' = [rng EXCEPT !.nonce = @ + 1]
    /\ UNCHANGED <<keyVars, dataVars, userVars>>

\* for record in &self.records { record.save(&db, self).await?; }
SaveRecordRow ==
    /\ \E t \in Tasks :
         /\ mem.tasks[t].pc = "records"
         /\ LET lot == mem.tasks[t].lot
                k == mem.tasks[t].k
                r == Record_save(database, lot.records[k], lot, rng.nonce + 1)
            IN  /\ database' = r.db
                /\ mem' = [mem EXCEPT
                              !.tasks[t].k = k + 1,
                              !.tasks[t].pc =
                                  IF ~r.out.ok THEN "failed"
                                  ELSE IF k = Len(lot.records) THEN "done"
                                  ELSE "records"]
         /\ res' = [op |-> "save: record row", task |-> t]
    /\ rng' = [rng EXCEPT !.nonce = @ + 1]
    /\ UNCHANGED <<keyVars, dataVars, userVars>>

NextRace == SaveLotRow \/ SaveKeyRow \/ SaveRecordRow

SpecRace == InitRace /\ [][NextRace]_vars

\* ---------------------------------------------------------- two-lot harness
\* Two registered users and two lots made with Lot::new, the first possibly
\* with a record pushed; either user saves either lot and loads.
InitLots ==
    /\ KeyIdle /\ DataIdle /\ UserIdle
    /\ rng = [nonce |-> 2, salt |-> 2, key |-> 2, uuid |-> 3]
    /\ database = Init_database
    /\ \E name \in LotNames, recs \in {<<>>, <<Plain(<<0>>, <<1>>)>>} :
         mem = [users |-> Init_users,
                lots |-> <<[lot |-> [Lot_new("main", 1, 1) EXCEPT !.records =
                                       [k \in 1..Len(recs) |->
                                           Record_new(Lot_new("main", 1, 1),
                                                      recs[k], 3)]],
                            dirty |-> recs # <<>>, savedBy |-> {}],
                           [lot |-> Lot_new(name, 2, 2),
                            dirty |-> FALSE, savedBy |-> {}]>>,
                saves |-> <<>>]
    /\ res = [op |-> "none"]

NextLots == LotSave \/ LotLoad \/ LotLoadAll

SpecLots == InitLots /\ [][NextLots]_vars

\* ------------------------------------------------------ lots table harness
\* SqlLot rows as db/lots.rs declares them, upserted into an empty table.
SqlLots ==
    [uuid : {Uuid_to_string(1), Uuid_to_string(2)}, name : LotNames,
     key_data : {<<1>>, <<2>>}, key_nonce : {<<1>>, <<2>>}]

InitLotRows ==
    /\ RngInit /\ KeyIdle /\ DataIdle /\ UserIdle /\ SysIdle

\* lot.upsert(&db)
SqlLotUpsert ==
    /\ \E row \in SqlLots :
         LET r == SqlLot_upsert(database, row) IN
         /\ database' = r.db
         /\ res' = [op |-> "SqlLot.upsert", row |-> row,
                    before |-> database.lots, out |-> r.out]
    /\ UNCHANGED <<rng, mem, keyVars, dataVars, userVars>>

NextLotRows == SqlLotUpsert

SpecLotRows == InitLotRows /\ [][NextLotRows]_vars

\* ------------------------------------------------------- two saved lots
\* alice has made and saved two lots; records are made for either lot and
\* inserted into either.
InitCross ==
    /\ KeyIdle /\ DataIdle /\ UserIdle
    /\ LET main == Lot_new("main", 1, 1)
           work == Lot_new("work", 2, 2)
           s1 == Lot_save(Init_database, main, Alice, 3)
           s2 == Lot_save(s1.db, work, Alice, 4)
       IN  /\ s1.out.ok /\ s2.out.ok
           /\ database = s2.db
           /\ mem = [users |-> Init_users,
                     lots |-> <<[lot |-> main, dirty |-> FALSE, savedBy |-> {1}],
                                [lot |-> work, dirty |-> FALSE, savedBy |-> {1}]>>,
                     saves |-> <<[lot |-> 1, user |-> 1],
                                 [lot |-> 2, user |-> 1]>>]
    /\ rng = [nonce |-> 4, salt |-> 2, key |-> 2, uuid |-> 2]
    /\ res = [op |-> "none"]

NextCross == RecordInsert \/ LotSave \/ LotLoad

SpecCross == InitCross /\ [][NextCross]_vars

\* ------------------------------------------------------ stored-row harness
\* Rows of the store may hold any bytes: the crate writes SqlRecord and
\* SqlUserLotKey rows as given, and the store file is written outside it too.
\* The session starts after alice saved a lot holding records.
SavedLot(recs) ==
    LET lot == Lot_new("main", 1, 1) IN
    [lot EXCEPT !.records =
        [k \in 1..Len(recs) |-> Record_new(lot, recs[k], k + 1)]]

InitTamper ==
    /\ KeyIdle /\ DataIdle /\ UserIdle
    /\ \E n \in 1..(MaxUuids - 1) : \E recs \in [1..n -> Payloads] :
         LET lot == SavedLot(recs)
             saved == Lot_save(Init_database, lot, Alice, 3)
         IN  /\ saved.out.ok
             /\ database = saved.db
             /\ rng = [nonce |-> 2 + saved.draws, salt |-> 2, key |-> 1,
                       uuid |-> n + 1]
             /\ mem = [users |-> Init_users,
                       lots |-> <<[lot |-> lot, dirty |-> FALSE,
                                   savedBy |-> {1}, tampered |-> {}]>>]
    /\ res = [op |-> "none"]

\* The forms a stored record row may take in place of the one save wrote.
RecordRowVariants(row, lot) ==
    {[row EXCEPT !.data = Corrupt(@)],
     [row EXCEPT !.uuid = [form |-> "malformed", bits |-> @.bits]],
     [row EXCEPT !.data = Seal(lot.key.bytes, row.nonce, <<9>>)],
     [row EXCEPT !.data = Seal(lot.key.bytes, row.nonce, FrameEncode(<<7>>))]}
    \cup {[row EXCEPT !.nonce = n] : n \in NonceVariants(row.nonce) \ {row.nonce}}

\* The forms a stored wrapping row may take.
WrappingRowVariants(row, user) ==
    {[row EXCEPT !.data = Corrupt(@)],
     [row EXCEPT !.data = Seal(Charlie.key.bytes, row.nonce, row.data.pt)],
     [row EXCEPT !.data = Seal(user.key.bytes, row.nonce, <<0>>)]}
    \cup {[row EXCEPT !.nonce = n] : n \in NonceVariants(row.nonce) \ {row.nonce}}

\* A record row of the store is replaced.
TamperRecord ==
    /\ \E k \in 1..Len(database.records) :
         /\ <<"record", k>> \notin mem.lots[1].tampered
         /\ \E row \in RecordRowVariants(database.records[k], mem.lots[1].lot) :
              database' = [database EXCEPT !.records[k] = row]
         /\ mem' = [mem EXCEPT !.lots[1].tampered = @ \cup {<<"record", k>>}]
    /\ res' = [op |-> "tamper"]
    /\ UNCHANGED <<rng, keyVars, dataVars, userVars>>

\* A wrapping row of the store is replaced.
TamperKey ==
    /\ \E k \in 1..Len(database.user_lot_keys) :
         /\ <<"key", k>> \notin mem.lots[1].tampered
         /\ \E row \in WrappingRowVariants(database.user_lot_keys[k], Alice) :
              database' = [database EXCEPT !.user_lot_keys[k] = row]
         /\ mem' = [mem EXCEPT !.lots[1].tampered = @ \cup {<<"key", k>>}]
    /\ res' = [op |-> "tamper"]
    /\ UNCHANGED <<rng, keyVars, dataVars, userVars>>

NextTamper == TamperRecord \/ TamperKey \/ LotLoad

SpecTamper == InitTamper /\ [][NextTamper]_vars

\* -------------------------------------------------------- password harness
\* The command-line program: it reads a password into a pinned PasswordBuf
\* of its own frame, lends it to User::new or User::load, and leaves main.
\* The buffer is the bytes of its String's allocation.
PasswordBytes(password) == <<password>>
Plaintext(buf) == buf.bytes[1]
Zeroed(bytes) == [k \in 1..Len(bytes) |-> 0]

\* PasswordBuf::from(String) takes the String's allocation over; from(&mut
\* str) copies the text and zeroes the text it was given.
PasswordBuf_from(form, password) ==
    [live |-> TRUE, bytes |-> PasswordBytes(password),
     source |-> IF form = "String" THEN <<>>
                ELSE Zeroed(PasswordBytes(password))]

\* A plausible slip: the derive of ZeroizeOnDrop is left out.
PasswordBuf_drop_plain(buf) == buf

\* ZeroizeOnDrop: drop overwrites the String's bytes.
PasswordBuf_drop(buf) == [buf EXCEPT !.bytes = Zeroed(@)]

\* Stores the program may be started on: charlie not registered, or his
\* row with a salt Argon2 rejects, or with a nonce of the wrong length.
PwStores ==
    {Init_database,
     [Init_database EXCEPT !.users = SubSeq(@, 1, 1)],
     [Init_database EXCEPT !.users[2].salt = <<>>],
     [Init_database EXCEPT !.users[2].validation_nonce = <<>>]}

InitPw ==
    /\ KeyIdle /\ DataIdle /\ UserIdle
    /\ rng = [nonce |-> 2, salt |-> 2, key |-> 0, uuid |-> 0]
    /\ database \in PwStores
    /\ mem = [users |-> <<>>, lots |-> <<>>, pc |-> "start",
              password |-> [live |-> FALSE, bytes |-> <<>>, source |-> <<>>],
              freed |-> <<>>]
    /\ res = [op |-> "none"]

\* let password = get_password!();
GetPassword ==
    /\ mem.pc = "start"
    /\ \E p \in Passwords, form \in {"String", "mut str"} :
         mem' = [mem EXCEPT !.password = PasswordBuf_from(form, p),
                            !.pc = "read"]
    /\ res' = [op |-> "pw!"]
    /\ UNCHANGED <<rng, database, keyVars, dataVars, userVars>>

\* User::new(&username, password) has returned to main.
PwUserNew ==
    /\ mem.pc = "read"
    /\ \E u \in Usernames :
         res' = [op |-> "User.new",
                 out |-> User_new(u, Plaintext(mem.password), rng.salt + 1,
                                  rng.nonce + 1)]
    /\ rng' = [rng EXCEPT !.salt = @ + 1, !.nonce = @ + 1]
    /\ mem' = [mem EXCEPT !.pc = "returned"]
    /\ UNCHANGED <<database, keyVars, dataVars, userVars>>

\* .register(&db) on the user User::new returned.
PwRegister ==
    /\ mem.pc = "returned"
    /\ res.op = "User.new" /\ res.out.ok
    /\ LET r == User_register(database, res.out.val) IN
         /\ database' = r.db
         /\ res' = [op |-> "User.register", out |-> r.out]
    /\ UNCHANGED <<rng, mem, keyVars, dataVars, userVars>>

\* User::load(&db, &username, password) has returned to main, or unwinds.
PwUserLoad ==
    /\ mem.pc = "read"
    /\ \E u \in Usernames :
         res' = [op |-> "User.load",
                 out |-> User_load(database, u, Plaintext(mem.password))]
    /\ mem' = [mem EXCEPT !.pc = "returned"]
    /\ UNCHANGED <<rng, database, keyVars, dataVars, userVars>>

\* main returns, by its end, by `?` or by unwinding: the buffer is dropped.
PwDrop ==
    /\ mem.pc = "returned"
    /\ mem' = [mem EXCEPT !.password = PasswordBuf_drop(@), !.pc = "dropped"]
    /\ UNCHANGED <<rng, database, res, keyVars, dataVars, userVars>>

\* The dropped String gives its allocation back.
PwRelease ==
    /\ mem.pc = "dropped"
    /\ mem' = [mem EXCEPT !.freed = Append(@, mem.password.bytes),
                          !.password = [@ EXCEPT !.live = FALSE,
                                                 !.bytes = <<>>],
                          !.pc = "exited"]
    /\ UNCHANGED <<rng, database, res, keyVars, dataVars, userVars>>

NextPw ==
    GetPassword \/ PwUserNew \/ PwRegister \/ PwUserLoad \/ PwDrop \/ PwRelease

SpecPw == InitPw /\ [][NextPw]_vars

\* ------------------------------------------------------------ db::Users
\* Users::register and Users::get own the password String. Each returns its
\* result, the store, the bytes the String holds when it is dropped at the
\* return, and the draws made.
\* clobber_password: the bytes are overwritten from OsRng.
Users_clobber_password(bytes, drawId) == fill_bytes(Len(bytes), 900 + drawId)

Users_load_and_clobber_user(db, sql_user, password, drawId) ==
    IF Len(sql_user.salt) # SaltLen
    THEN [db |-> db, out |-> Err("SaltError"),
          password |-> PasswordBytes(password), draws |-> 0]
    ELSE LET user == User_load(db, sql_user.username, password) IN
         IF ~user.ok
         THEN [db |-> db, out |-> user, password |-> PasswordBytes(password),
               draws |-> 0]
         ELSE [db |-> db, out |-> user,
               password |-> Users_clobber_password(PasswordBytes(password),
                                                   drawId),
               draws |-> 1]

Users_register(db, username, password, saltId, nonceId) ==
    LET user == User_new(username, password, saltId, nonceId) IN
    IF ~user.ok
    THEN [db |-> db, out |-> user, password |-> PasswordBytes(password),
          draws |-> 1]
    ELSE LET r == User_register(db, user.val) IN
         IF ~r.out.ok
         THEN [db |-> r.db, out |-> Err("Database"),
               password |-> PasswordBytes(password), draws |-> 1]
         ELSE LET l == Users_load_and_clobber_user(
                           r.db, SqlUser_select(r.db, username).val, password,
                           nonceId + 1)
              IN  [l EXCEPT !.draws = @ + 1]

Users_get(db, username, password, drawId) ==
    LET sql_user == SqlUser_select(db, username) IN
    IF ~sql_user.ok
    THEN [db |-> db, out |-> Err("Database"),
          password |-> PasswordBytes(password), draws |-> 0]
    ELSE Users_load_and_clobber_user(db, sql_user.val, password, drawId)

InitUsers ==
    /\ KeyIdle /\ DataIdle /\ UserIdle
    /\ rng = [nonce |-> 2, salt |-> 2, key |-> 0, uuid |-> 0]
    /\ database \in PwStores
    /\ mem = [users |-> <<>>, lots |-> <<>>]
    /\ res = [op |-> "none"]

\* Users::register(&db, username, password)
UsersRegister ==
    /\ rng.nonce + 2 <= MaxNonces
    /\ \E u \in Usernames, p \in Passwords :
         LET r == Users_register(database, u, p, rng.salt + 1, rng.nonce + 1) IN
         /\ database' = r.db
         /\ rng' = [rng EXCEPT !.salt = @ + 1, !.nonce = @ + r.draws]
         /\ res' = [op |-> "Users.register", pw |-> p, out |-> r.out,
                    password |-> r.password]
    /\ UNCHANGED <<mem, keyVars, dataVars, userVars>>

\* Users::get(&db, username, password)
UsersGet ==
    /\ rng.nonce + 1 <= MaxNonces
    /\ \E u \in Usernames, p \in Passwords :
         LET r == Users_get(database, u, p, rng.nonce + 1) IN
         /\ rng' = [rng EXCEPT !.nonce = @ + r.draws]
         /\ res' = [op |-> "Users.get", pw |-> p, out |-> r.out,
                    password |-> r.password]
    /\ UNCHANGED <<database, mem, keyVars, dataVars, userVars>>

NextUsers == UsersRegister \/ UsersGet

SpecUsers == InitUsers /\ [][NextUsers]_vars

\* ------------------------------------------------------------------ claims
Decrypted == decOut.op = "decrypt"
SrcOf(d) == encLog[d.src]

\* C1: decrypting an unaltered ciphertext with the key that encrypted it
\* succeeds and returns exactly the plaintext that was encrypted.
C1_RoundTrip ==
    (Decrypted /\ decOut.key = SrcOf(decOut).key
               /\ decOut.encrypted = SrcOf(decOut).ct)
        => (decOut.out.ok /\ decOut.out.val = SrcOf(decOut).pt)

C1_Witness ==
    /\ Decrypted /\ decOut.key = SrcOf(decOut).key
    /\ decOut.encrypted = SrcOf(decOut).ct
    /\ decOut.out.ok /\ Len(SrcOf(decOut).pt) > 0

\* C4: a User that User::new returned validates.
C4_NewValidates ==
    (vOut.op = "validate" /\ vUser.replaced = <<>>)
        => (vOut.out.ok /\ vOut.out.val)

C4_Witness ==
    vOut.op = "validate" /\ vUser.replaced = <<>> /\ vOut.out.ok /\ vOut.out.val

\* The stored validation opens under the user's key and holds the marker.
HoldsMarker(user) ==
    /\ Opens(user.key.bytes, user.validation.nonce, user.validation.data)
    /\ user.validation.data.pt = VALIDATION

\* The registered User object of a username, if the program holds one.
Registered(i) == i \in Users /\ mem.users[i].state = "registered"

\* C5: User.load of a registered username with another password than the
\* one it registered with fails with Error::Invalid and returns no User.
C5_WrongPasswordInvalid ==
    \A i \in Users :
        (/\ res.op = "User.load" /\ Registered(i)
         /\ res.username = mem.users[i].user.username
         /\ res.pw # mem.users[i].pw)
            => (~res.out.ok /\ res.out.err = "Invalid")

C5_Witness ==
    \E i \in Users :
        /\ res.op = "User.load" /\ Registered(i)
        /\ res.username = mem.users[i].user.username
        /\ res.pw # mem.users[i].pw
        /\ res.out.err = "Invalid"

\* C6: User.load of a username with no stored row fails with Error::Invalid,
\* the error a wrong password gives.
C6_NoSuchUserInvalid ==
    (res.op = "User.load" /\ ~UsernameTaken(database, res.username))
        => (~res.out.ok /\ res.out.err = "Invalid")

\* C7: validate never errors or panics; it returns true only when the stored
\* validation decrypts under the user's key to the marker, and false
\* otherwise, in particular for the marker encrypted under another user's key.
C7_ValidateIsTotal ==
    vOut.op = "validate"
        => (/\ vOut.out.ok
            /\ vOut.out.val = HoldsMarker(vUser.user))

\* C8: after a successful register, User.load with the same username and
\* password succeeds and returns a User equal to the registered one in
\* username, salt, validation and key.
C8_RegisterLoad ==
    \A i \in Users :
        (/\ res.op = "User.load" /\ Registered(i)
         /\ res.username = mem.users[i].user.username
         /\ res.pw = mem.users[i].pw)
            => (res.out.ok /\ res.out.val = mem.users[i].user)

C8_Witness ==
    \E i \in Users :
        /\ res.op = "User.load" /\ Registered(i)
        /\ res.username = mem.users[i].user.username
        /\ res.pw = mem.users[i].pw
        /\ res.out.ok /\ res.out.val.key = mem.users[i].user.key

\* C9: every RecordData value survives encode/decode, compress/decompress
\* and encrypt/decrypt under a lot key unchanged.
C9_PayloadRoundTrip ==
    dOut.op \in {"decode", "decompress", "decrypt"}
        => (dOut.out.ok /\ dOut.out.val = dIn.v)

\* C2: decrypt returns a Decryption error, and no plaintext, whenever the
\* key is not the one that encrypted, or the data or the nonce differs from
\* what encrypt produced.
C2_TamperIsDecryptionError ==
    (Decrypted /\ (\/ decOut.key # SrcOf(decOut).key
                   \/ decOut.encrypted.data # SrcOf(decOut).ct.data
                   \/ decOut.encrypted.nonce # SrcOf(decOut).ct.nonce))
        => (~decOut.out.ok /\ decOut.out.err = "Decryption")

\* C3: encrypt calls under one key, the same plaintext included, never yield
\* the same nonce, hence never the same ciphertext.
C3_FreshNonce ==
    \A i, j \in 1..Len(encLog) :
        (i # j /\ encLog[i].key = encLog[j].key)
            => (/\ encLog[i].ct.nonce # encLog[j].ct.nonce
                /\ encLog[i].ct # encLog[j].ct)

C3_Witness ==
    \E i, j \in 1..Len(encLog) :
        /\ i # j /\ encLog[i].key = encLog[j].key
        /\ encLog[i].pt = encLog[j].pt
        /\ ~encLog[i].rebuilt /\ encLog[j].rebuilt

C9_Witness ==
    /\ dOut.op = "decrypt" /\ dOut.out.ok
    /\ dIn.v.tag = "Domain" /\ Cardinality(DOMAIN dIn.v.attrs) = 2

\* No other Lot object of the program carries the name of lot l.
OnlyLotNamed(l) ==
    \A m \in Lots : m # l => mem.lots[m].lot.name # mem.lots[l].lot.name

\* C10: once every record a lot holds in memory went through Lot.save or
\* Record.insert, Lot.load by the lot's name and a user who saved it
\* succeeds and returns exactly the lot's in-memory record sequence.
C10_SaveInsertLoad ==
    \A l \in Lots :
        (/\ res.op = "Lot.load" /\ res.name = mem.lots[l].lot.name
         /\ res.user \in mem.lots[l].savedBy
         /\ ~mem.lots[l].dirty /\ OnlyLotNamed(l))
            => (res.out.ok /\ res.out.val.records = mem.lots[l].lot.records)

\* C11: a Lot.save of a lot with stored records, whose key was replaced by a
\* fresh one since the user's wrapping row was written, succeeds and leaves
\* the wrapping row wrapping the new key.
C11_RotateThenSave ==
    (/\ res.op = "Lot.save" /\ res.was.key.ok
     /\ res.was.key.val # Key_as_bytes(mem.lots[res.lot].lot.key)
     /\ res.was.rows # <<>>
     /\ Len(res.was.rows) = Len(mem.lots[res.lot].lot.records))
        => (/\ res.ok
            /\ Stored(database, mem.lots[res.lot].lot,
                      mem.users[res.user].user).key
                   = Ok(Key_as_bytes(mem.lots[res.lot].lot.key)))

\* The wrapping rows the store holds for a user and a lot.
WrappingRows(user, lot) ==
    {k \in 1..Len(database.user_lot_keys) :
        /\ database.user_lot_keys[k].username = user.username
        /\ database.user_lot_keys[k].lot = Uuid_to_string(lot.uuid)}

\* C12: after a successful Lot.save there is exactly one wrapping row for the
\* user and the lot, and it decrypts under the user's key to the bytes of the
\* lot's current key.
C12_OneWrappingRow ==
    (res.op = "Lot.save" /\ res.ok)
        => LET lot == mem.lots[res.lot].lot
               user == mem.users[res.user].user
           IN  /\ Cardinality(WrappingRows(user, lot)) = 1
               /\ Stored(database, lot, user).key = Ok(Key_as_bytes(lot.key))

C12_Witness ==
    /\ res.op = "Lot.save" /\ res.ok /\ res.was.key.ok
    /\ res.was.key.val # Key_as_bytes(mem.lots[res.lot].lot.key)
    /\ Cardinality(WrappingRows(mem.users[res.user].user,
                                mem.lots[res.lot].lot)) = 1

\* A lot name no lots row carries.
NoSuchLot == "absent"
LotRowNamed(name) ==
    \E k \in 1..Len(database.lots) : database.lots[k].name = name

\* C13: Lot.load returns no Lot when no lots row has the name or when the
\* user has no wrapping row for the lot, and the error of the second case is
\* another than the error of the first.
C13_LoadErrorKinds ==
    res.op = "Lot.load" =>
        LET user == mem.users[res.user].user IN
        /\ ~LotRowNamed(res.name) => ~res.out.ok
        /\ (/\ LotRowNamed(res.name)
            /\ ~SqlUserLotKey_select(database, user.username,
                    SqlLot_select_by_name(database, res.name).val.uuid).ok)
               => (/\ ~res.out.ok
                   /\ res.out.err # Lot_load(database, NoSuchLot, user).err)

UserKeyBytes == {Key_as_bytes(mem.users[i].user.key) : i \in Users}
LotKeyBytes == {Key_as_bytes(mem.lots[l].lot.key) : l \in Lots}
Rows(table) == {table[k] : k \in 1..Len(table)}

C19_ConsumedOnReturn ==
    (res.op = "User.new" /\ mem.pc = "returned")
        => (~mem.password.live \/ mem.password.bytes = Zeroed(mem.password.bytes))

\* The lots a user has a wrapping row for, in the order they were saved.
SavedLots(i) ==
    LET mine == SelectSeq(mem.saves, LAMBDA s : s.user = i)
    IN  [k \in 1..Len(mine) |-> mem.lots[mine[k].lot].lot]

OwnLot(l, i) == mem.lots[l].savedBy = {i}

\* C20: when two users have each saved a lot of their own under the same
\* name, both saves succeed and Lot.load of that name returns to each user
\* the lot that user saved.
C20_SameNamePerUser ==
    \A l1, l2 \in Lots, i, j \in Users :
        (/\ l1 # l2 /\ i # j
         /\ mem.lots[l1].lot.name = mem.lots[l2].lot.name
         /\ OwnLot(l1, i) /\ OwnLot(l2, j))
            => /\ (res.op = "Lot.save" /\ res.lot = l2 /\ res.user = j
                   /\ res.was.rows = <<>>) => res.ok
               /\ (res.op = "Lot.load" /\ res.user = i
                   /\ res.name = mem.lots[l1].lot.name)
                      => (/\ res.out.ok
                          /\ res.out.val.uuid = mem.lots[l1].lot.uuid)

\* The in-memory lot whose id a stored row names.
LotOfRow(row) ==
    {l \in Lots : Uuid_to_string(mem.lots[l].lot.uuid) = row.lot}

\* C21: every record row names a lot whose lot row exists, and its
\* ciphertext decrypts under the key of the lot it names.
C21_RowBelongsToItsLot ==
    \A row \in Rows(database.records) :
        /\ SqlLot_select(database, row.lot).ok
        /\ \A l \in LotOfRow(row) :
              RecordData_decrypt([data |-> row.data, nonce |-> row.nonce],
                                 mem.lots[l].lot.key).ok

\* C22: RecordData::decrypt returns Error::Encryption when the cipher does
\* not open the ciphertext; else Error::Compression when the plaintext is no
\* frame; else Error::Encoding when the decompressed bytes are no payload;
\* else the payload.
C22_StageErrors ==
    dOut.op = "RecordData.decrypt"
        => LET box == dIn.buf.data
               frame == FrameDecode(box.pt)
           IN  IF ~Opens(dIn.key.bytes, dIn.buf.nonce, box)
               THEN dOut.out = Err("Encryption")
               ELSE IF ~frame.ok THEN dOut.out = Err("Compression")
               ELSE IF ~RecordData_decode(frame.val).ok
               THEN dOut.out = Err("Encoding")
               ELSE dOut.out = RecordData_decode(frame.val)

\* C23: an upsert of a lot row whose uuid is already stored, when it
\* succeeds, changes the name of that row and nothing else: the table keeps
\* its length, every other row and the row's key columns are as before, and
\* the row returned is the row as stored.
C23_UpsertRenamesOnly ==
    (/\ res.op = "SqlLot.upsert" /\ res.out.ok
     /\ \E k \in 1..Len(res.before) : res.before[k].uuid = res.row.uuid)
        => /\ Len(database.lots) = Len(res.before)
           /\ \A k \in 1..Len(res.before) :
                 IF res.before[k].uuid = res.row.uuid
                 THEN /\ database.lots[k].uuid = res.before[k].uuid
                      /\ database.lots[k].name = res.row.name
                      /\ database.lots[k].key_data = res.before[k].key_data
                      /\ database.lots[k].key_nonce = res.before[k].key_nonce
                      /\ res.out.val = database.lots[k]
                 ELSE database.lots[k] = res.before[k]

C23_Witness ==
    /\ res.op = "SqlLot.upsert" /\ res.out.ok
    /\ \E k \in 1..Len(res.before) :
         /\ res.before[k].uuid = res.row.uuid
         /\ res.before[k].name # res.row.name
         /\ res.before[k].key_data # res.row.key_data
         /\ database.lots[k].name = res.row.name

\* C24: when Users::register or Users::get returns, on any path, the
\* password String it owned no longer holds the password.
C24_PasswordClobbered ==
    res.op \in {"Users.register", "Users.get"}
        => res.password # PasswordBytes(res.pw)

\* The other users who hold a wrapping row for the lot a save was of.
OtherHolders ==
    {j \in Users \ {res.user} :
        SqlUserLotKey_select(database, mem.users[j].user.username,
                             Uuid_to_string(mem.lots[res.lot].lot.uuid)).ok}

\* C25: after a Lot.save that succeeded with a key other than the one the
\* saving user's wrapping row held, every other user with a wrapping row for
\* the lot still loads it, with the records the lot was saved with.
C25_RotationKeepsOtherUsers ==
    (/\ res.op = "Lot.save" /\ res.ok /\ res.was.key.ok
     /\ res.was.key.val # Key_as_bytes(mem.lots[res.lot].lot.key))
        => \A j \in OtherHolders :
              LET loaded == Lot_load(database, mem.lots[res.lot].lot.name,
                                     mem.users[j].user)
              IN  /\ loaded.ok
                  /\ loaded.val.records = mem.lots[res.lot].lot.records

\* C26: whenever the owner's wrapping row of the lot exists, every stored
\* record row of the lot decrypts under the key that row unwraps to.
C26_RowsUnderWrappedKey ==
    \A l \in Lots :
        LET lot == mem.lots[l].lot
            key == Stored(database, lot, mem.users[1].user).key
        IN  key.ok
              => \A row \in Rows(database.records) :
                    row.lot = Uuid_to_string(lot.uuid)
                      => RecordData_decrypt(
                             [data |-> row.data, nonce |-> row.nonce],
                             Key_from_bytes(key.val).val).ok

\* C27: after a Lot.save that wrote a new key into the saving user's
\* wrapping row and then failed, a Lot.load by that user succeeds and
\* returns every record that was stored before the save.
C27_FailedSaveStaysLoadable ==
    (/\ res.op = "Lot.save" /\ ~res.ok /\ res.was.key.ok
     /\ res.was.key.val # Key_as_bytes(mem.lots[res.lot].lot.key)
     /\ Stored(database, mem.lots[res.lot].lot, mem.users[res.user].user).key
            = Ok(Key_as_bytes(mem.lots[res.lot].lot.key)))
        => LET loaded == Lot_load(database, mem.lots[res.lot].lot.name,
                                  mem.users[res.user].user)
           IN  /\ loaded.ok
               /\ \A k \in 1..Len(res.was.rows) :
                     \E n \in 1..Len(loaded.val.records) :
                         Uuid_to_string(loaded.val.records[n].uuid)
                             = res.was.rows[k]

\* C28: when both saves have ended, the wrapping row unwraps to a key under
\* which every stored record row of the lot decrypts.
C28_SavesEndConsistent ==
    (\A t \in Tasks : mem.tasks[t].pc \in {"done", "failed"})
        => LET lot == mem.tasks[1].lot
               key == Stored(database, lot, Alice).key
           IN  /\ key.ok
               /\ \A row \in Rows(database.records) :
                     row.lot = Uuid_to_string(lot.uuid)
                       => RecordData_decrypt(
                              [data |-> row.data, nonce |-> row.nonce],
                              Key_from_bytes(key.val).val).ok

\* C29: registering a username that is already registered fails with a
\* database error and leaves the store as it was; afterwards User.load of that
\* username succeeds with exactly the first registrant's password.
C29_DuplicateRegisterRefused ==
    (/\ res.op = "User.register"
     /\ UsernameTaken(res.before, mem.users[res.user].user.username))
        => LET username == mem.users[res.user].user.username
               first == CHOOSE j \in Users :
                            /\ mem.users[j].state = "registered"
                            /\ mem.users[j].user.username = username
           IN  /\ ~res.ok
               /\ res.err = "Database"
               /\ database = res.before
               /\ \E j \in Users :
                     /\ mem.users[j].state = "registered"
                     /\ mem.users[j].user.username = username
               /\ \A p \in Passwords :
                     User_load(database, username, p).ok
                         <=> p = mem.users[first].pw

C29_Witness ==
    /\ res.op = "User.register"
    /\ ~res.ok
    /\ \E j \in Users :
         /\ mem.users[j].state = "registered"
         /\ mem.users[j].user.username = mem.users[res.user].user.username
         /\ mem.users[j].pw # mem.users[res.user].pw

\* C30: a failed Record.insert returns its error and leaves the lot's
\* in-memory records as they were; a record is in memory after an insert only
\* when its row is in the store.
C30_FailedInsertLeavesRecords ==
    res.op = "Record.insert"
        => LET records == mem.lots[res.lot].lot.records
               record == mem.held[res.held].record
           IN  /\ ~res.out.ok => /\ records = res.before
                                 /\ res.out.err \in {"Database", "Encryption",
                                                      "Compression", "Encoding"}
               /\ res.out.ok => /\ records = Append(res.before, record)
                                /\ RecordUuidTaken(database,
                                                   Uuid_to_string(record.uuid))

C30_Witness ==
    /\ res.op = "Record.insert"
    /\ ~res.out.ok
    /\ mem.lots[res.lot].lot.records # <<>>

====
